---- MODULE Spec2Model ----
(***************************************************************************)
(* Credential-pool dispatcher of app/utils/key_pool_request_sender.py:     *)
(* IterCycle, ManagedSession (token bucket + lazily created transport),    *)
(* SessionManager (used_sessions / waiting_sessions), APIRequest           *)
(* (call_llm / call_llm_single) and StatusTracker.                         *)
(*                                                                         *)
(* Time is counted in whole seconds.  Tokens are counted in units of       *)
(* 1/TokenUnit of a token, so that the default refill rate of 1/20 token   *)
(* per second is one unit per second and all arithmetic is exact.          *)
(*                                                                         *)
(* The program runs on one asyncio event loop: a coroutine runs without    *)
(* interruption from one real suspension to the next.  "running" is the    *)
(* attempt that holds the loop's thread inside time.sleep (0: the loop is  *)
(* free to resume any ready coroutine).                                    *)
(***************************************************************************)
EXTENDS Integers, Sequences, FiniteSets, TLC

\* ---------------------------------------------------------------- bounds
NumCreds == 2        \* largest number of configured credentials
MaxConcurrent == 2   \* largest number of requests submitted in Init
NumSweeps == 1       \* close_all_sessions / close_inactive_sessions calls
MaxTicks == 1        \* clock advances (sleeps and idle waits) in a pool run
MaxFailures == 1     \* failing upstream calls in a pool run
MaxSleeps == 10      \* time.sleep calls in a dispatch run
MaxItems == 3        \* distinct items offered to an IterCycle on its own

\* ----------------------------------------------------- program constants
NumAttempts == 4         \* main(): range(4) concurrent send_request calls
TokenUnit == 20          \* 1 / refill_rate: token units per token
bucket_capacity == 3     \* ManagedSession.bucket_capacity, in tokens
default_refill_rate == 1 \* ManagedSession.refill_rate, units per second
session_timeout == 300   \* SessionManager.session_timeout
default_attempts_left == 5
delay == 1

Creds == 1..NumCreds
Attempts == 1..NumAttempts
Sweeps == 1..NumSweeps

\* values of ManagedSession._session that are no session object
AttrDeleted == 0 - 1     \* instance attribute removed by "del self._session"
AttrNone == 0            \* None (dataclass default)

NoSession == <<0, 0>>    \* get_next_session returned None

\* upstream behaviours of one session.post(...) / response.json()
Outcomes == {"ok", "empty", "rate_limit", "api_error", "null", "exception"}

Min(a, b) == IF a <= b THEN a ELSE b

Range(s) == {s[i] : i \in 1..Len(s)}

VARIABLES
    now,               \* time.time()
    session_configs,   \* SessionManager.session_configs (set of credential ids)
    used_sessions,     \* SessionManager.used_sessions: IterCycle [items, index]
    waiting_sessions,  \* SessionManager.waiting_sessions
    tokens,            \* ManagedSession.tokens, in units
    last_used,         \* ManagedSession.last_used
    refill_rate,       \* ManagedSession.refill_rate, units per second
    session_obj,       \* ManagedSession._session: AttrDeleted, AttrNone or the
                       \* number g >= 1 of the ClientSession object <<c, g>>
    num_created,       \* ClientSession objects created so far, per credential
    closed,            \* ClientSession objects <<c, g>> whose .closed is True
    pc,                \* position of each call_llm coroutine
    attempts_left,     \* APIRequest.attempts_left
    handle,            \* the session of the upstream call in flight (the
                       \* local "session" of call_llm), else NoSession
    result,            \* APIRequest.result (classes of the errors appended)
    calls,             \* upstream calls (session.post) made by each call_llm
    running,           \* attempt blocking the event loop in time.sleep, or 0
    status_tracker,    \* StatusTracker
    sweep,             \* the close_*_sessions coroutines
    env,               \* what the environment may still do: clock advances
                       \* (ticks), failing upstream calls (failures), and
                       \* the outcomes the upstream produces (outcomes)
    acquired,          \* history: per credential, the times at which its
                       \* session property was read and returned a session
    zero_at,           \* history: per credential, the time at which its
                       \* tokens were consumed down to 0 with no session
                       \* returned since, else -1
    close_raised,      \* history: the credentials on which a direct call of
                       \* ManagedSession.close raised AttributeError
    rot                \* history: the rotation under way over an IterCycle

vars == <<now, session_configs, used_sessions, waiting_sessions, tokens,
          last_used, refill_rate, session_obj, num_created, closed, pc,
          attempts_left, handle, result, calls, running, status_tracker,
          sweep, env, acquired, zero_at, close_raised, rot>>

poolVars == <<used_sessions, waiting_sessions, tokens, last_used,
              session_obj, num_created, closed>>

attemptVars == <<pc, attempts_left, handle, result, calls, running,
                 status_tracker>>

historyVars == <<acquired, zero_at, close_raised, rot>>

\* ------------------------------------------------------------ IterCycle
\* index is 0-based as in the code; items[index] is items[index + 1] here.

IterAdd(ic, item) == [ic EXCEPT !.items = Append(ic.items, item)]

IndexOf(items, item) ==
    CHOOSE i \in 1..Len(items) :
        /\ items[i] = item
        /\ \A j \in 1..(i - 1) : items[j] # item

RemoveAt(items, i) ==
    [j \in 1..(Len(items) - 1) |-> IF j < i THEN items[j] ELSE items[j + 1]]

\* remove that leaves the index where it was
IterRemove_no_adjust(ic, item) ==
    IF item \in Range(ic.items)
    THEN LET rest == RemoveAt(ic.items, IndexOf(ic.items, item))
         IN [items |-> rest,
             index |-> IF Len(rest) = 0 THEN 0 ELSE ic.index % Len(rest)]
    ELSE ic

\* remove that decrements the index but neither wraps nor resets it
IterRemove_no_wrap(ic, item) ==
    IF item \in Range(ic.items)
    THEN LET pos == IndexOf(ic.items, item)
             item_index == pos - 1
         IN [items |-> RemoveAt(ic.items, pos),
             index |-> IF item_index <= ic.index THEN ic.index - 1
                       ELSE ic.index]
    ELSE ic

IterRemove(ic, item) ==
    IF item \in Range(ic.items)
    THEN LET pos == IndexOf(ic.items, item)
             item_index == pos - 1
             rest == RemoveAt(ic.items, pos)
             idx == IF item_index <= ic.index THEN ic.index - 1 ELSE ic.index
         IN [items |-> rest,
             index |-> IF Len(rest) = 0 THEN 0 ELSE idx % Len(rest)]
    ELSE ic

count_items(ic) == Len(ic.items)

\* __next__ on a non-empty IterCycle: the item returned and the new state
IterNext(ic) ==
    [item |-> ic.items[ic.index + 1],
     ic |-> [ic EXCEPT !.index = (ic.index + 1) % Len(ic.items)]]

\* ------------------------------------------------------- ManagedSession
\* The pool state the methods work on, as one record.
Pool ==
    [used |-> used_sessions, waiting |-> waiting_sessions, tokens |-> tokens,
     last_used |-> last_used, obj |-> session_obj, created |-> num_created,
     closed |-> closed]

SetPool(p) ==
    /\ used_sessions' = p.used
    /\ waiting_sessions' = p.waiting
    /\ tokens' = p.tokens
    /\ last_used' = p.last_used
    /\ session_obj' = p.obj
    /\ num_created' = p.created
    /\ closed' = p.closed

Capacity == bucket_capacity * TokenUnit

\* refill_tokens that adds nothing
refill_tokens_nothing(p, c, t) == p

\* refill_tokens without the min(bucket_capacity, ...)
refill_tokens_uncapped(p, c, t) ==
    [p EXCEPT !.tokens[c] =
        p.tokens[c] + (t - p.last_used[c]) * refill_rate[c]]

\* refill_tokens at time t: elapsed is measured from last_used
refill_tokens(p, c, t) ==
    [p EXCEPT !.tokens[c] =
        Min(Capacity, p.tokens[c] + (t - p.last_used[c]) * refill_rate[c])]

\* can_be_used that reports a token without taking it
can_be_used_keeps_token(p, c, t) ==
    LET q == refill_tokens(p, c, t)
    IN [pool |-> q, ok |-> q.tokens[c] >= TokenUnit]

\* can_be_used at time t: refill, then take one token if there is one
can_be_used(p, c, t) ==
    LET q == refill_tokens(p, c, t)
    IN IF q.tokens[c] >= TokenUnit
       THEN [pool |-> [q EXCEPT !.tokens[c] = q.tokens[c] - TokenUnit],
             ok |-> TRUE]
       ELSE [pool |-> q, ok |-> FALSE]

\* "self._session is not None and not self._session.closed"
IsOpen(p, c) == p.obj[c] >= 1 /\ <<c, p.obj[c]>> \notin p.closed

\* the session property at time t: the ClientSession <<c, g>> or NoSession
SessionGet(p, c, t) ==
    LET r == can_be_used(p, c, t)
        q == [r.pool EXCEPT !.last_used[c] = t]
    IN IF r.ok
       THEN IF IsOpen(q, c)
            THEN [pool |-> q, session |-> <<c, q.obj[c]>>]
            ELSE [pool |-> [q EXCEPT !.obj[c] = q.created[c] + 1,
                                     !.created[c] = q.created[c] + 1],
                  session |-> <<c, q.created[c] + 1>>]
       ELSE [pool |-> r.pool, session |-> NoSession]

\* ------------------------------------------------------- SessionManager
\* get_next_session, first loop: at most "left" candidates from used_sessions
RECURSIVE UsedLoop(_, _, _)
UsedLoop(p, left, t) ==
    IF left = 0
    THEN [pool |-> p, session |-> NoSession]
    ELSE LET nx == IterNext(p.used)
             r == SessionGet([p EXCEPT !.used = nx.ic], nx.item, t)
         IN IF r.session # NoSession THEN r ELSE UsedLoop(r.pool, left - 1, t)

\* get_next_session, second loop: waiting_sessions from position i on
RECURSIVE WaitingLoop(_, _, _)
WaitingLoop(p, i, t) ==
    IF i > Len(p.waiting)
    THEN [pool |-> p, session |-> NoSession]
    ELSE LET m == p.waiting[i]
             r == SessionGet(p, m, t)
         IN IF r.session # NoSession
            THEN [pool |-> [r.pool EXCEPT
                      !.waiting = RemoveAt(r.pool.waiting,
                                           IndexOf(r.pool.waiting, m)),
                      !.used = IterAdd(r.pool.used, m)],
                  session |-> r.session]
            ELSE WaitingLoop(r.pool, i + 1, t)

\* get_next_session that looks at waiting_sessions before used_sessions
get_next_session_waiting_first(p, t) ==
    LET a == WaitingLoop(p, 1, t)
    IN IF a.session # NoSession
       THEN a
       ELSE UsedLoop(a.pool, count_items(a.pool.used), t)

\* get_next_session at time t.  The session property never suspends, so the
\* whole call runs without yielding to the event loop.
get_next_session(p, t) ==
    LET a == UsedLoop(p, count_items(p.used), t)
    IN IF a.session # NoSession THEN a ELSE WaitingLoop(a.pool, 1, t)

\* ManagedSession.close up to its await: an open session is closed (its
\* .closed is True from here on) and the coroutine may be suspended.
CloseBegin(p, c) == [p EXCEPT !.closed = p.closed \cup {<<c, p.obj[c]>>}]

\* "del self._session" raises AttributeError when the instance attribute is
\* gone (the class attribute None is what the reads then see).
DelRaises(p, c) == p.obj[c] = AttrDeleted

DelSession(p, c) == [p EXCEPT !.obj[c] = AttrDeleted]

\* ManagedSession.close on credential c, run to its end with nothing else
\* in between: the pool it leaves and whether "del self._session" raised.
\* An open session is closed and the attribute deleted; otherwise the
\* attribute is deleted at once.
close(p, c) ==
    IF IsOpen(p, c)
    THEN [pool |-> DelSession(CloseBegin(p, c), c), raised |-> FALSE]
    ELSE IF DelRaises(p, c)
    THEN [pool |-> p, raised |-> TRUE]
    ELSE [pool |-> DelSession(p, c), raised |-> FALSE]

\* a sweep that appends to waiting_sessions without used_sessions.remove
MoveToWaiting_no_remove(p, c) ==
    [p EXCEPT !.waiting = Append(p.waiting, c)]

\* after close: used_sessions.remove(m); waiting_sessions.append(m)
MoveToWaiting(p, c) ==
    [p EXCEPT !.used = IterRemove(p.used, c),
              !.waiting = Append(p.waiting, c)]

\* close_all_sessions ("all") and close_inactive_sessions ("inactive") from
\* the top of an iteration with "left" iterations to go, until the coroutine
\* suspends in close, raises, or returns.  ct is current_time of
\* close_inactive_sessions.
RECURSIVE SweepLoop(_, _, _, _)
SweepLoop(p, left, kind, ct) ==
    IF left = 0
    THEN [pool |-> p, pc |-> "done", cur |-> 0, left |-> 0]
    ELSE IF count_items(p.used) = 0
    THEN [pool |-> p, pc |-> "raised", cur |-> 0, left |-> left]
    ELSE LET nx == IterNext(p.used)
             m == nx.item
             q == [p EXCEPT !.used = nx.ic]
         IN IF kind = "inactive" /\ ~(ct - q.last_used[m] > session_timeout)
            THEN SweepLoop(q, left - 1, kind, ct)
            ELSE IF IsOpen(q, m)
            THEN [pool |-> CloseBegin(q, m), pc |-> "closing", cur |-> m,
                  left |-> left - 1]
            ELSE IF DelRaises(q, m)
            THEN [pool |-> q, pc |-> "raised", cur |-> m, left |-> left]
            ELSE SweepLoop(MoveToWaiting(DelSession(q, m), m), left - 1,
                           kind, ct)

\* the coroutine resumes after "await self._session.close()"
SweepAfterClose(p, m, left, kind, ct) ==
    IF DelRaises(p, m)
    THEN [pool |-> p, pc |-> "raised", cur |-> m, left |-> left]
    ELSE SweepLoop(MoveToWaiting(DelSession(p, m), m), left, kind, ct)

\* ----------------------------------------------------------- APIRequest
\* call_llm_single whose except branch neither counts nor keeps the error
call_llm_single_uncounted(tr, o) ==
    IF o \in {"ok", "empty"}
    THEN [tracker |-> [tr EXCEPT
                          !.num_tasks_in_progress = tr.num_tasks_in_progress - 1,
                          !.num_tasks_succeeded = tr.num_tasks_succeeded + 1],
          error |-> "none",
          truthy |-> (o = "ok")]
    ELSE [tracker |-> tr, error |-> "none", truthy |-> FALSE]

\* call_llm_single once the upstream call has ended with outcome o:
\* the counters, the error appended to result ("none": nothing appended)
\* and whether the value returned to call_llm is truthy.
\*   "ok"          a JSON object without "error"
\*   "empty"       the JSON object {}
\*   "rate_limit"  {"error": {"message": "Rate limit ..."}}
\*   "api_error"   {"error": {...}} without "Rate limit" in its message
\*   "null"        the JSON value null
\*   "exception"   session.post or response.json raised
\* For an error object, response is set to None before response["error"] is
\* read, so the lookup raises TypeError inside the try block.
call_llm_single(tr, o) ==
    IF o \in {"ok", "empty"}
    THEN [tracker |-> [tr EXCEPT
                          !.num_tasks_in_progress = tr.num_tasks_in_progress - 1,
                          !.num_tasks_succeeded = tr.num_tasks_succeeded + 1],
          error |-> "none",
          truthy |-> (o = "ok")]
    ELSE [tracker |-> [tr EXCEPT !.num_other_errors = tr.num_other_errors + 1],
          error |-> CASE o \in {"rate_limit", "api_error"} -> "TypeError"
                      [] o = "null" -> "Exception"
                      [] OTHER -> "ClientError",
          truthy |-> FALSE]

\* a poll that charges an attempt when no session was available
attempts_after_poll_charged(a, got) ==
    IF got
    THEN attempts_left
    ELSE [attempts_left EXCEPT ![a] = attempts_left[a] - 1]

\* attempts_left after get_next_session returned: a session (got) leads to
\* call_llm_single; None leads to time.sleep and "continue", attempts_left
\* untouched
attempts_after_poll(a, got) == attempts_left

\* call_llm from the top of the while loop at time t, for attempt a, until it
\* blocks in time.sleep, suspends in the upstream call, or returns.
LoopTop(a, t) ==
    IF attempts_left[a] > 0
    THEN LET r == get_next_session(Pool, t)
         IN /\ SetPool(r.pool)
            /\ handle' = [handle EXCEPT ![a] = r.session]
            /\ IF r.session # NoSession
               THEN /\ pc' = [pc EXCEPT ![a] = "calling"]
                    /\ calls' = [calls EXCEPT ![a] = calls[a] + 1]
                    /\ running' = 0
               ELSE /\ pc' = [pc EXCEPT ![a] = "sleep"]
                    /\ calls' = calls
                    /\ running' = a
            /\ attempts_left' = attempts_after_poll(a, r.session # NoSession)
            /\ UNCHANGED status_tracker
    ELSE /\ pc' = [pc EXCEPT ![a] = "FAILED"]
         /\ status_tracker' = [status_tracker EXCEPT
                !.num_tasks_in_progress = status_tracker.num_tasks_in_progress - 1,
                !.num_tasks_failed = status_tracker.num_tasks_failed + 1]
         /\ running' = 0
         /\ UNCHANGED <<poolVars, handle, calls, attempts_left>>

\* the event loop runs a submitted call_llm for the first time (the requests
\* are interchangeable: they are numbered in the order they first run)
Start(a) ==
    /\ running = 0
    /\ pc[a] = "new"
    /\ \A b \in 1..(a - 1) : pc[b] # "new"
    /\ LoopTop(a, now)
    /\ UNCHANGED <<now, session_configs, refill_rate, result, sweep, env,
                   historyVars>>

\* time.sleep(self.delay) returns and the loop goes round
Resume(a) ==
    /\ running = a
    /\ pc[a] = "sleep"
    /\ env.ticks > 0
    /\ env' = [env EXCEPT !.ticks = env.ticks - 1]
    /\ now' = now + delay
    /\ LoopTop(a, now + delay)
    /\ UNCHANGED <<session_configs, refill_rate, result, sweep, historyVars>>

\* what "async with session.post(...)" / "await response.json()" of attempt
\* a can end with: on a ClientSession that was closed meanwhile the call
\* raises (no connection is left to answer on); otherwise the upstream
\* decides
UpstreamOutcomes(a) ==
    IF handle[a] \in closed THEN {"exception"} ELSE env.outcomes

\* the upstream call of attempt a ends with outcome o; call_llm_single
\* classifies it and call_llm returns the response or enters time.sleep
Respond(a, o) ==
    /\ running = 0
    /\ pc[a] = "calling"
    /\ o \in UpstreamOutcomes(a)
    /\ IF o = "ok" \/ handle[a] \in closed
       THEN UNCHANGED env
       ELSE /\ env.failures > 0
            /\ env' = [env EXCEPT !.failures = env.failures - 1]
    /\ LET r == call_llm_single(status_tracker, o)
       IN /\ status_tracker' = r.tracker
          /\ result' = IF r.error = "none" THEN result
                       ELSE [result EXCEPT ![a] = Append(result[a], r.error)]
          /\ IF r.truthy
             THEN /\ pc' = [pc EXCEPT ![a] = "SUCCEEDED"]
                  /\ running' = 0
                  /\ UNCHANGED attempts_left
             ELSE /\ pc' = [pc EXCEPT ![a] = "sleep"]
                  /\ running' = a
                  /\ attempts_left' =
                         [attempts_left EXCEPT ![a] = attempts_left[a] - 1]
    /\ handle' = [handle EXCEPT ![a] = NoSession]
    /\ UNCHANGED <<now, session_configs, refill_rate, poolVars, calls, sweep,
                   historyVars>>

\* the event loop is idle for d seconds
WaitSteps == {delay, session_timeout + 1}

Wait(d) ==
    /\ running = 0
    /\ env.ticks > 0
    /\ env' = [env EXCEPT !.ticks = env.ticks - 1]
    /\ now' = now + d
    /\ UNCHANGED <<session_configs, refill_rate, poolVars, attemptVars, sweep,
                   historyVars>>

\* ----------------------------------------------------- the close sweeps
IdleSweep == [pc |-> "idle", kind |-> "all", cur |-> 0, left |-> 0, ct |-> 0]

\* the locals of a sweep are kept while it is suspended only
SetSweep(s, r, kind, ct) ==
    /\ SetPool(r.pool)
    /\ sweep' = [sweep EXCEPT ![s] =
           IF r.pc = "closing"
           THEN [pc |-> r.pc, kind |-> kind, cur |-> r.cur, left |-> r.left,
                 ct |-> ct]
           ELSE [IdleSweep EXCEPT !.pc = r.pc, !.kind = kind]]

\* close_all_sessions is called
CloseAllStart(s) ==
    /\ running = 0
    /\ sweep[s].pc = "idle"
    /\ \A z \in 1..(s - 1) : sweep[z].pc # "idle"
    /\ SetSweep(s, SweepLoop(Pool, count_items(used_sessions), "all", 0),
                "all", 0)
    /\ UNCHANGED <<now, session_configs, refill_rate, attemptVars, env,
                   historyVars>>

\* close_inactive_sessions is called
CloseInactiveStart(s) ==
    /\ running = 0
    /\ sweep[s].pc = "idle"
    /\ \A z \in 1..(s - 1) : sweep[z].pc # "idle"
    /\ SetSweep(s, SweepLoop(Pool, count_items(used_sessions), "inactive",
                             now),
                "inactive", now)
    /\ UNCHANGED <<now, session_configs, refill_rate, attemptVars, env,
                   historyVars>>

\* a sweep suspended in "await self._session.close()" resumes
CloseResume(s) ==
    /\ running = 0
    /\ sweep[s].pc = "closing"
    /\ SetSweep(s, SweepAfterClose(Pool, sweep[s].cur, sweep[s].left,
                                   sweep[s].kind, sweep[s].ct),
                sweep[s].kind, sweep[s].ct)
    /\ UNCHANGED <<now, session_configs, refill_rate, attemptVars, env,
                   historyVars>>

\* --------------------------------------------------------------- Init
\* no rotation over the IterCycle is under way
NoRotation == [on |-> FALSE, start |-> <<>>, seen |-> <<>>, left |-> 0,
               removable |-> FALSE]

NewTracker ==
    [num_tasks_started |-> 0, num_tasks_in_progress |-> 0,
     num_tasks_succeeded |-> 0, num_tasks_failed |-> 0,
     num_rate_limit_errors |-> 0, num_api_errors |-> 0,
     num_other_errors |-> 0, time_of_last_rate_limit_error |-> 0]

\* SessionManager.__post_init__ on n configs with refill rate "rate" (units
\* per second); then u requests were served at once, each by one successful
\* upstream call on the only active credential (u <= bucket_capacity); now k
\* requests are submitted (MessageProcessor.send_request) in environment e.
\* The credentials are numbered in the order random.shuffle leaves them in:
\* the last one is popped into used_sessions.
InitWith(n, u, k, rate, e) ==
    /\ now = 0
    /\ session_configs = 1..n
    /\ waiting_sessions = [i \in 1..(n - 1) |-> i]
    /\ used_sessions = [items |-> <<n>>, index |-> 0]
    /\ tokens = [c \in Creds |-> IF c = n THEN Capacity - u * TokenUnit
                                 ELSE Capacity]
    /\ last_used = [c \in Creds |-> 0]
    /\ refill_rate = [c \in Creds |-> rate]
    /\ session_obj = [c \in Creds |-> IF c = n /\ u > 0 THEN 1 ELSE AttrNone]
    /\ num_created = [c \in Creds |-> IF c = n /\ u > 0 THEN 1 ELSE 0]
    /\ closed = {}
    /\ pc = [a \in Attempts |-> IF a <= k THEN "new" ELSE "absent"]
    /\ attempts_left = [a \in Attempts |-> default_attempts_left]
    /\ handle = [a \in Attempts |-> NoSession]
    /\ result = [a \in Attempts |-> <<>>]
    /\ calls = [a \in Attempts |-> 0]
    /\ running = 0
    /\ status_tracker = [NewTracker EXCEPT !.num_tasks_in_progress = 0 - u,
                                           !.num_tasks_succeeded = u]
    /\ sweep = [s \in Sweeps |-> IdleSweep]
    /\ env = e
    /\ acquired = [c \in Creds |-> IF c = n THEN [i \in 1..u |-> 0] ELSE <<>>]
    /\ zero_at = [c \in Creds |-> IF c = n /\ u = bucket_capacity THEN 0
                                  ELSE 0 - 1]
    /\ close_raised = {}
    /\ rot = NoRotation

\* The pool with sweeps: NumCreds credentials, MaxConcurrent requests, an
\* upstream that answers or raises.
Init ==
    \E u \in 0..bucket_capacity :
    InitWith(NumCreds, u, MaxConcurrent, default_refill_rate,
             [ticks |-> MaxTicks, failures |-> MaxFailures,
              outcomes |-> {"ok", "exception"}])

Next ==
    \/ \E a \in Attempts : Start(a)
    \/ \E a \in Attempts : Resume(a)
    \/ \E a \in Attempts, o \in Outcomes : Respond(a, o)
    \/ \E d \in WaitSteps : Wait(d)
    \/ \E s \in Sweeps : CloseAllStart(s)
    \/ \E s \in Sweeps : CloseInactiveStart(s)
    \/ \E s \in Sweeps : CloseResume(s)

Spec == Init /\ [][Next]_vars

\* ------------------------------------------------- the dispatcher alone
\* Requests against a pool nobody sweeps: any pool size, any number of
\* requests served before, and either one request with an upstream that
\* answers in any of the ways, or several requests with an upstream that
\* always answers the same way.
OutcomeSets == {{o} : o \in Outcomes} \cup {Outcomes}

InitDispatch ==
    \E n \in 1..NumCreds, u \in 0..bucket_capacity, k \in 1..MaxConcurrent,
       os \in OutcomeSets :
        /\ k = 1 \/ Cardinality(os) = 1
        /\ InitWith(n, u, k, default_refill_rate,
                    [ticks |-> MaxSleeps, failures |-> default_attempts_left,
                     outcomes |-> os])

NextDispatch ==
    \/ \E a \in Attempts : Start(a)
    \/ \E a \in Attempts : Resume(a)
    \/ \E a \in Attempts, o \in Outcomes : Respond(a, o)

SpecDispatch == InitDispatch /\ [][NextDispatch]_vars

\* main(): one credential with bucket_capacity tokens and refill rate 0,
\* NumAttempts requests gathered at once, an upstream that always succeeds
InitScenarioA ==
    InitWith(1, 0, NumAttempts, 0,
             [ticks |-> MaxSleeps, failures |-> 0, outcomes |-> {"ok"}])

SpecScenarioA == InitScenarioA /\ [][NextDispatch]_vars

\* ------------------------------------------- the dispatcher to the end
\* Requests run until they resolve: the clock and the upstream are given
\* budgets no run can use up.  A bucket holds a token at the latest
\* TokenUnit seconds after it was last charged, and a request makes at most
\* default_attempts_left upstream calls, each followed by one time.sleep.
LiveTicks == MaxConcurrent * default_attempts_left * (TokenUnit + delay)

LiveFailures == MaxConcurrent * default_attempts_left

\* A fresh pool or one whose active credential is drained; one request with
\* an upstream that answers or raises as it likes, or several requests with
\* an upstream that always does the same.
InitLive ==
    \E n \in 1..NumCreds, u \in {0, bucket_capacity}, k \in 1..MaxConcurrent,
       os \in {{"ok"}, {"exception"}, {"ok", "exception"}} :
        /\ k = 1 \/ Cardinality(os) = 1
        /\ InitWith(n, u, k, default_refill_rate,
                    [ticks |-> LiveTicks, failures |-> LiveFailures,
                     outcomes |-> os])

\* What the scheduling delivers.  The event loop, when free, gives a
\* submitted call_llm its first turn: the step that takes pc[a] away from
\* "new" is Start(a), which can always be taken then.
FirstRun(a) ==
    /\ running = 0
    /\ pc[a] = "new"
    /\ \A b \in 1..(a - 1) : pc[b] # "new"
    /\ \E v \in {"calling", "sleep"} : pc' = [pc EXCEPT ![a] = v]

\* time.sleep(self.delay) returns: the step that advances the clock past the
\* sleep of a is Resume(a), which can always be taken then.
SleepReturns(a) ==
    /\ running = a
    /\ pc[a] = "sleep"
    /\ env.ticks > 0
    /\ now' = now + delay

\* Each of the three happens when it stays possible; every upstream call
\* ends and its coroutine is resumed.
Fairness ==
    /\ WF_pc(\E a \in Attempts : FirstRun(a))
    /\ WF_now(\E a \in Attempts : SleepReturns(a))
    /\ WF_vars(\E a \in Attempts, o \in Outcomes : Respond(a, o))

SpecLive == InitLive /\ [][NextDispatch]_vars /\ Fairness

\* ------------------------------------- selection after a shutdown sweep
\* Requests whose upstream calls all raise, so that buckets are drained and
\* further credentials promoted, with close_all_sessions calls in between
\* that send the active credentials, drained or not, back to
\* waiting_sessions.
InitSelect ==
    \E u \in 0..bucket_capacity :
        InitWith(NumCreds, u, MaxConcurrent, default_refill_rate,
                 [ticks |-> MaxTicks + 1, failures |-> MaxFailures + 1,
                  outcomes |-> {"exception"}])

NextSelect ==
    \/ \E a \in Attempts : Start(a)
    \/ \E a \in Attempts : Resume(a)
    \/ \E a \in Attempts, o \in Outcomes : Respond(a, o)
    \/ \E s \in Sweeps : CloseAllStart(s)
    \/ \E s \in Sweeps : CloseResume(s)

SpecSelect == InitSelect /\ [][NextSelect]_vars

\* ------------------------------------------------- an IterCycle alone
\* used_sessions as a container of its own: items 1..MaxItems are added (an
\* item is never added while it is in the container), removed and stepped
\* over, and rotations of count_items() calls of next, each optionally
\* followed by remove of the item just returned, are run.
Items == 1..MaxItems

cycleFrame == <<now, session_configs, waiting_sessions, tokens, last_used,
                refill_rate, session_obj, num_created, closed, attemptVars,
                sweep, env, acquired, zero_at, close_raised>>

CycleAdd(x) ==
    /\ ~rot.on
    /\ x \notin Range(used_sessions.items)
    /\ used_sessions' = IterAdd(used_sessions, x)
    /\ UNCHANGED <<rot, cycleFrame>>

CycleRemove(x) ==
    /\ ~rot.on
    /\ used_sessions' = IterRemove(used_sessions, x)
    /\ UNCHANGED <<rot, cycleFrame>>

CycleNext ==
    /\ ~rot.on
    /\ count_items(used_sessions) > 0
    /\ used_sessions' = IterNext(used_sessions).ic
    /\ UNCHANGED <<rot, cycleFrame>>

\* "for _ in range(self.used_sessions.count_items())" is entered
RotateStart ==
    /\ ~rot.on
    /\ rot' = [on |-> TRUE, start |-> used_sessions.items, seen |-> <<>>,
               left |-> count_items(used_sessions), removable |-> FALSE]
    /\ UNCHANGED <<used_sessions, cycleFrame>>

\* one iteration: managed_session = next(self.used_sessions)
RotateNext ==
    /\ rot.on
    /\ rot.left > 0
    /\ LET nx == IterNext(used_sessions)
       IN /\ used_sessions' = nx.ic
          /\ rot' = [rot EXCEPT !.seen = Append(rot.seen, nx.item),
                                !.left = rot.left - 1,
                                !.removable = TRUE]
    /\ UNCHANGED cycleFrame

\* the iteration goes on to self.used_sessions.remove(managed_session)
RotateRemove ==
    /\ rot.on
    /\ rot.removable
    /\ used_sessions' = IterRemove(used_sessions, rot.seen[Len(rot.seen)])
    /\ rot' = [rot EXCEPT !.removable = FALSE]
    /\ UNCHANGED cycleFrame

\* the for loop is left
RotateEnd ==
    /\ rot.on
    /\ rot.left = 0
    /\ rot' = NoRotation
    /\ UNCHANGED <<used_sessions, cycleFrame>>

InitCycle ==
    InitWith(1, 0, 0, default_refill_rate,
             [ticks |-> 0, failures |-> 0, outcomes |-> {}])

NextCycle ==
    \/ \E x \in Items : CycleAdd(x)
    \/ \E x \in Items : CycleRemove(x)
    \/ CycleNext
    \/ RotateStart
    \/ RotateNext
    \/ RotateRemove
    \/ RotateEnd

SpecCycle == InitCycle /\ [][NextCycle]_vars

\* --------------------------------------------------- one token bucket
\* The session property of credential c is read at the current time.
ReadSession(c) ==
    /\ c \in session_configs
    /\ LET r == SessionGet(Pool, c, now)
       IN /\ SetPool(r.pool)
          /\ IF r.session # NoSession
             THEN /\ acquired' = [acquired EXCEPT ![c] = Append(acquired[c], now)]
                  /\ zero_at' = [zero_at EXCEPT ![c] =
                         IF r.pool.tokens[c] = 0 THEN now ELSE 0 - 1]
             ELSE UNCHANGED <<acquired, zero_at>>
    /\ UNCHANGED <<now, session_configs, refill_rate, attemptVars, sweep, env,
                   close_raised, rot>>

\* ManagedSession.close of credential c is called and awaited
Close(c) ==
    /\ c \in session_configs
    /\ LET r == close(Pool, c)
       IN /\ SetPool(r.pool)
          /\ close_raised' = IF r.raised THEN close_raised \cup {c}
                             ELSE close_raised
    /\ UNCHANGED <<now, session_configs, refill_rate, attemptVars, sweep, env,
                   acquired, zero_at, rot>>

InitBucket ==
    InitWith(1, 0, 0, default_refill_rate,
             [ticks |-> MaxTicks + 1, failures |-> 0, outcomes |-> {}])

NextBucket ==
    \/ \E c \in Creds : ReadSession(c)
    \/ \E d \in WaitSteps : Wait(d)
    \/ \E c \in Creds : Close(c)

SpecBucket == InitBucket /\ [][NextBucket]_vars

\* ================================================================ claims

C2_RateBound ==
    \A c \in Creds :
        \A i, j \in 1..Len(acquired[c]) :
            i <= j =>
                (j - i + 1) * TokenUnit
                    <= Capacity
                       + (acquired[c][j] - acquired[c][i]) * refill_rate[c]

\* C3: once the tokens of a credential were consumed down to 0 at time t0,
\* the tokens a refill computes at time t0 + dt are min(C, dt * R), however
\* many reads of the session property failed in between.
C3_RefillAfterEmpty ==
    \A c \in Creds :
        zero_at[c] >= 0 =>
            refill_tokens(Pool, c, now).tokens[c]
                = Min(Capacity, (now - zero_at[c]) * refill_rate[c])

InCall(a) == pc[a] = "calling"

\* C4 (as claimed): never do two different call_llm coroutines perform an
\* upstream call on the transport of the same credential at the same time.
C4_ExclusiveLease ==
    \A a, b \in Attempts :
        (a # b /\ InCall(a) /\ InCall(b)) => handle[a][1] # handle[b][1]

\* C4 (amended): a call_llm coroutine enters its upstream call holding the
\* open transport that is the credential's current session, in a step that
\* refilled the credential's bucket, took one token from it and stamped
\* last_used; the credential is not withheld from other coroutines meanwhile.
C4_TokenPerCall ==
    [][\A a \in Attempts :
          (~InCall(a) /\ InCall(a)') =>
              LET c == handle'[a][1]
              IN /\ c \in session_configs
                 /\ handle'[a] = <<c, session_obj'[c]>>
                 /\ handle'[a] \notin closed'
                 /\ last_used'[c] = now'
                 /\ tokens'[c] =
                        Min(Capacity,
                            tokens[c] + (now' - last_used[c]) * refill_rate[c])
                        - TokenUnit]_vars

\* two coroutines are in their upstream call on the same transport
C4_Witness ==
    \E a, b \in Attempts :
        a # b /\ InCall(a) /\ InCall(b) /\ handle[a] = handle[b]

\* an attempt has a step to take: its call_llm has not run yet, or the answer
\* to its upstream call is one the environment may deliver
Ready(b) ==
    \/ pc[b] = "new" /\ \A z \in 1..(b - 1) : pc[z] # "new"
    \/ /\ pc[b] = "calling"
       /\ \E o \in UpstreamOutcomes(b) :
              o = "ok" \/ handle[b] \in closed \/ env.failures > 0

StepOf(b) == Start(b) \/ \E o \in Outcomes : Respond(b, o)

\* C5: while one call_llm is in its inter-attempt or no-credential delay,
\* every other call_llm that has a step to take can take it.
C5_DelayYields ==
    \A a, b \in Attempts :
        (a # b /\ pc[a] = "sleep" /\ Ready(b)) => ENABLED StepOf(b)

Succeeded == {a \in Attempts : pc[a] = "SUCCEEDED"}

\* C6: one credential with bucket_capacity tokens and refill rate 0,
\* NumAttempts requests at once, an upstream that always succeeds: no request
\* makes more than one upstream call, at most bucket_capacity requests make
\* one, and until exactly bucket_capacity requests have SUCCEEDED some
\* request can start or have its answer processed.
C6_ScenarioA ==
    /\ \A a \in Attempts : calls[a] <= 1
    /\ Cardinality({a \in Attempts : calls[a] > 0}) <= bucket_capacity
    /\ \/ Cardinality(Succeeded) = bucket_capacity
       \/ ENABLED (\E a \in Attempts : StepOf(a))

\* C7: a single request whose every upstream call returns a rate-limit error
\* object makes exactly default_attempts_left upstream calls and ends FAILED,
\* with num_rate_limit_errors raised by that number and num_tasks_failed by 1.
C7_RetryBudget ==
    (/\ env.outcomes = {"rate_limit"}
     /\ pc[1] = "FAILED"
     /\ \A a \in Attempts \ {1} : pc[a] = "absent")
    => /\ calls[1] = default_attempts_left
       /\ status_tracker.num_rate_limit_errors = default_attempts_left
       /\ status_tracker.num_tasks_failed = 1

ErrorCounters(tr) ==
    <<tr.num_rate_limit_errors, tr.num_api_errors, tr.num_other_errors>>

Bump(o, tr) ==
    LET e == ErrorCounters(tr)
    IN CASE o = "rate_limit" -> <<e[1] + 1, e[2], e[3]>>
         [] o = "api_error" -> <<e[1], e[2] + 1, e[3]>>
         [] OTHER -> <<e[1], e[2], e[3] + 1>>

\* C8: a failed upstream call increments exactly one error counter, chosen by
\* the class of its outcome, and leaves the other two alone: rate-limit error
\* object -> num_rate_limit_errors, other error object -> num_api_errors,
\* exception or absent response -> num_other_errors.
C8_OneCounter ==
    [][\A a \in Attempts :
          \A o \in {"rate_limit", "api_error", "null", "exception"} :
              (InCall(a) /\ ~InCall(a)' /\ env.outcomes = {o}) =>
                  ErrorCounters(status_tracker')
                      = Bump(o, status_tracker)]_vars

\* C9: a poll that finds no credential leaves attempts_left as it was (so N
\* such polls in a row do); attempts_left changes only by a decrement of one,
\* at the end of an upstream call that did not make call_llm return.
C9_NoAttemptConsumed ==
    [][\A a \in Attempts :
          /\ (pc[a] \in {"new", "sleep"}) =>
                 attempts_left'[a] = attempts_left[a]
          /\ (attempts_left'[a] # attempts_left[a]) =>
                 /\ InCall(a)
                 /\ pc'[a] = "sleep"
                 /\ attempts_left'[a] = attempts_left[a] - 1]_vars

\* the only request found no credential on at least two polls, then got one,
\* and still has all its attempts
C9_Witness ==
    \E a \in Attempts :
        /\ \A b \in Attempts \ {a} : pc[b] = "absent"
        /\ InCall(a)
        /\ calls[a] = 1
        /\ now >= 2 * delay
        /\ attempts_left[a] = default_attempts_left

\* C10: when a close_all_sessions call returns, used_sessions is empty and
\* every configured credential is in waiting_sessions, whatever ran at its
\* await points.
C10_CloseAllEmpties ==
    [][\A s \in Sweeps :
          (sweep[s].pc # "done" /\ sweep'[s].pc = "done"
               /\ sweep'[s].kind = "all") =>
              /\ used_sessions'.items = <<>>
              /\ Range(waiting_sessions') = session_configs]_vars

\* C11: when the upstream call of a call_llm coroutine ends on a transport
\* that close_all_sessions or close_inactive_sessions has closed, the attempt
\* is counted as an other error (num_other_errors + 1, no other counter
\* touched), one error is appended to result, attempts_left drops by one and
\* call_llm goes on with its loop (to time.sleep and the next iteration): no
\* exception leaves call_llm.
C11_ClosedTransportRetried ==
    [][\A a \in Attempts :
          (InCall(a) /\ handle[a] \in closed /\ ~InCall(a)') =>
              /\ status_tracker' =
                     [status_tracker EXCEPT
                         !.num_other_errors = status_tracker.num_other_errors + 1]
              /\ Len(result'[a]) = Len(result[a]) + 1
              /\ attempts_left'[a] = attempts_left[a] - 1
              /\ pc'[a] = "sleep"]_vars

\* a request is in time.sleep after its only upstream call so far failed on
\* a transport a sweep had closed (the upstream itself has not failed yet)
C11_Witness ==
    \E a \in Attempts :
        /\ pc[a] = "sleep"
        /\ calls[a] = 1
        /\ Len(result[a]) = 1
        /\ attempts_left[a] = default_attempts_left - 1
        /\ env.failures = MaxFailures
        /\ \E s \in Sweeps : sweep[s].pc # "idle"

\* C12: ManagedSession.close is idempotent: whenever it is called, on a
\* credential whose session is open, closed, or was never created, and
\* however many times in a row, the call ends without raising and leaves the
\* credential without an open session, and a second call right after it ends
\* without raising and changes nothing.
C12_CloseIdempotent ==
    [][\A c \in Creds :
          Close(c) =>
              LET first == close(Pool, c)
                  second == close(first.pool, c)
              IN /\ ~first.raised
                 /\ ~IsOpen(first.pool, c)
                 /\ ~second.raised
                 /\ second.pool = first.pool]_vars

\* C13: for every credential, 0 <= tokens <= bucket_capacity in every
\* reachable state, however the get_next_session calls of concurrent call_llm
\* coroutines interleave; a token is taken only by a coroutine that enters
\* its upstream call on that credential, only when the refilled bucket holds
\* at least one token, and it costs exactly one token: at most one coroutine
\* takes a token in a step, so no token is taken twice.
C13_TokensInRange ==
    /\ \A c \in Creds : 0 <= tokens[c] /\ tokens[c] <= Capacity
    /\ [][\A c \in Creds :
             LET r == Min(Capacity,
                          tokens[c] + (now' - last_used[c]) * refill_rate[c])
                 takers == {a \in Attempts :
                               ~InCall(a) /\ InCall(a)' /\ handle'[a][1] = c}
             IN /\ 0 <= tokens'[c] /\ tokens'[c] <= Capacity
                /\ Cardinality(takers) <= 1
                /\ takers # {} => (r >= TokenUnit /\ tokens'[c] = r - TokenUnit)
                /\ takers = {} => tokens'[c] \in {tokens[c], r}]_vars

\* a request is in its upstream call on a credential whose bucket, full and
\* idle for some time, was refilled (and capped) and charged one token
C13_Witness ==
    \E a \in Attempts :
        /\ InCall(a)
        /\ now > 0
        /\ last_used[handle[a][1]] = now
        /\ tokens[handle[a][1]] = Capacity - TokenUnit
        /\ \E b \in Attempts \ {a} : InCall(b)

\* call_llm coroutine a runs get_next_session in this step
Polls(a) ==
    \/ pc[a] = "new" /\ pc'[a] # "new"
    \/ pc[a] = "sleep" /\ now' # now /\ attempts_left[a] > 0

\* C14: get_next_session returns None only if, at that call, no credential
\* of used_sessions and none of waiting_sessions holds at least one token
\* after refill; it returns the session of a credential of waiting_sessions
\* only if no credential of used_sessions was usable at that call, that
\* credential is the first usable one in the order of waiting_sessions, and
\* it is moved from waiting_sessions to the end of used_sessions.
C14_SelectionOrder ==
    [][\A a \in Attempts :
          LET usable(c) ==
                  Min(Capacity,
                      tokens[c] + (now' - last_used[c]) * refill_rate[c])
                      >= TokenUnit
              c == handle'[a][1]
              pos == {i \in 1..Len(waiting_sessions) : waiting_sessions[i] = c}
          IN /\ (Polls(a) /\ pc'[a] = "sleep") =>
                    \A d \in session_configs : ~usable(d)
             /\ (Polls(a) /\ InCall(a)' /\ pos # {}) =>
                    /\ \A d \in Range(used_sessions.items) : ~usable(d)
                    /\ usable(c)
                    /\ \A i \in pos : \A j \in 1..(i - 1) :
                           ~usable(waiting_sessions[j])
                    /\ used_sessions'.items = Append(used_sessions.items, c)
                    /\ Len(waiting_sessions') = Len(waiting_sessions) - 1
                    /\ c \notin Range(waiting_sessions')]_vars

\* used_sessions is empty after a close_all_sessions sweep, the first
\* credential of waiting_sessions is drained, and the poll that a request
\* makes on waking promotes the second one past it
C14_Witness ==
    \E a \in Attempts :
        /\ pc[a] = "sleep"
        /\ used_sessions.items = <<>>
        /\ Len(waiting_sessions) >= 2
        /\ \E s \in Sweeps : sweep[s].pc = "done"
        /\ ~can_be_used(Pool, waiting_sessions[1], now + delay).ok
        /\ ENABLED (Resume(a) /\ InCall(a)'
                      /\ handle'[a][1] = waiting_sessions[2])

\* the items that n calls of next return on IterCycle ic
RECURSIVE Take(_, _)
Take(ic, n) ==
    IF n = 0
    THEN <<>>
    ELSE <<IterNext(ic).item>> \o Take(IterNext(ic).ic, n - 1)

\* C15: in an IterCycle of at least two items, whatever the index, after
\* remove(x) of the item x at the index, the next call of next returns the
\* item that followed x in cyclic order, and the calls of next from there on
\* return the remaining items in their original cyclic order, each once per
\* round, none skipped and none repeated.
C15_RemoveAtCursor ==
    [][LET items == used_sessions.items
           n == Len(items)
           cur == used_sessions.index + 1
       IN (/\ ~rot.on
           /\ n >= 2
           /\ used_sessions' = IterRemove(used_sessions, items[cur])) =>
              /\ IterNext(used_sessions').item = items[(cur % n) + 1]
              /\ Take(used_sessions', n - 1)
                     = [i \in 1..(n - 1) |-> items[((cur - 1 + i) % n) + 1]]]_vars

\* C16: a rotation of exactly count_items() iterations (counted when it
\* starts), each calling next and then possibly removing the item just
\* returned, returns every item that was in the IterCycle at its start
\* exactly once, whatever the items and the index it starts from; without
\* removals it is one full round over the members.
C16_RotationVisitsAll ==
    rot.on =>
        /\ Len(rot.seen) + rot.left = Len(rot.start)
        /\ Cardinality(Range(rot.seen)) = Len(rot.seen)
        /\ Range(rot.seen) \subseteq Range(rot.start)
        /\ rot.left = 0 => Range(rot.seen) = Range(rot.start)

\* a rotation over at least three items that started away from index 0 has
\* ended, having removed some of the items it returned and kept others
C16_Witness ==
    /\ rot.on
    /\ rot.left = 0
    /\ Len(rot.start) >= 3
    /\ rot.seen[1] # rot.start[1]
    /\ used_sessions.items # <<>>
    /\ Len(used_sessions.items) < Len(rot.start)

CursorValid ==
    IF used_sessions.items = <<>>
    THEN used_sessions.index = 0
    ELSE 0 <= used_sessions.index
         /\ used_sessions.index < Len(used_sessions.items)

\* C17: after any sequence of add, remove (of an item that is there or not)
\* and next on an IterCycle, 0 <= index < count_items() when it has items and
\* index = 0 when it has none; add leaves the index as it is.
C17_CursorValid ==
    /\ CursorValid
    /\ [][/\ CursorValid'
          /\ Len(used_sessions'.items) = Len(used_sessions.items) + 1
                 => used_sessions'.index = used_sessions.index]_vars

\* the item the IterCycle was built with has been removed, others were added
\* and the index stands on the last of them
C17_Witness ==
    /\ ~rot.on
    /\ Len(used_sessions.items) >= 2
    /\ used_sessions.items[1] # 1
    /\ used_sessions.index = Len(used_sessions.items) - 1

\* the ClientSession objects created for credential c that are not closed
OpenSessions(c) == {g \in 1..num_created[c] : <<c, g>> \notin closed}

\* C18: in every reachable state, whatever get_next_session calls run at the
\* await points of close_inactive_sessions and close_all_sessions, every
\* credential in waiting_sessions has no open session, and no call_llm
\* coroutine is in an upstream call on an open session of it.
C18_StandbyIdle ==
    \A c \in Range(waiting_sessions) :
        /\ OpenSessions(c) = {}
        /\ \A a \in Attempts :
               (InCall(a) /\ handle[a][1] = c) => handle[a] \in closed

\* the requests served before the ones of this run were submitted (each
\* read the session of the first active credential once, at time 0)
ServedBefore == Len(acquired[Cardinality(session_configs)])

Resolved == {a \in Attempts : pc[a] \in {"SUCCEEDED", "FAILED"}}

\* C19: every call_llm that resolves changes the outcome counters exactly
\* once over its whole run, whatever its upstream calls answered (an empty
\* JSON object included): once the requests that have run have all resolved,
\* num_tasks_succeeded + num_tasks_failed has grown by one per request and
\* num_tasks_in_progress has dropped by one per request, and
\* num_tasks_succeeded has grown by one for each request that returned a
\* response and for no other.
C19_CountedOnce ==
    (\A a \in Attempts : pc[a] \in {"absent", "new", "SUCCEEDED", "FAILED"})
    => /\ status_tracker.num_tasks_succeeded + status_tracker.num_tasks_failed
              = ServedBefore + Cardinality(Resolved)
       /\ status_tracker.num_tasks_in_progress
              = 0 - (ServedBefore + Cardinality(Resolved))
       /\ status_tracker.num_tasks_succeeded
              = ServedBefore + Cardinality(Succeeded)

\* C20: with finitely many concurrent requests, a refill rate above 0, time
\* advancing and every upstream call ending, every call_llm eventually is
\* SUCCEEDED or FAILED, and it never makes more than default_attempts_left
\* upstream calls.
C20_Terminates ==
    /\ [](\A a \in Attempts : calls[a] <= default_attempts_left)
    /\ <>(\A a \in Attempts : pc[a] \in {"absent", "SUCCEEDED", "FAILED"})

\* the only request has FAILED after default_attempts_left upstream calls,
\* having also slept on polls that found no credential
C20_Witness ==
    /\ pc[1] = "FAILED"
    /\ \A a \in Attempts \ {1} : pc[a] = "absent"
    /\ calls[1] = default_attempts_left
    /\ now > default_attempts_left * delay

====
